---- MODULE Spec2Model ----
(***************************************************************************)
(* Model of src/main.py: the Flask handler transcribe_endpoint and the     *)
(* helpers it calls (download_audio_file, convert_audio_to_wav,            *)
(* transcribe_audio, save_to_firestore), run by several requests at once   *)
(* over one temporary directory and one Firestore collection.              *)
(*                                                                         *)
(* Python strings built with f-strings are modelled as sequences of their  *)
(* parts, e.g. f"Error during transcription: {e}" is                       *)
(* <<"Error during transcription: ", e>>.                                  *)
(***************************************************************************)
EXTENDS Integers, Sequences, FiniteSets, TLC

\* ---------------------------------------------------------------- bounds
NumRequests == 2                 \* /transcribe requests that may overlap
Requests == 1..NumRequests
Names == 1..NumRequests          \* random stems tempfile can draw ("tmpXXXX")

\* ------------------------------------------------------ program constants
FetchTimeout == 30               \* requests.get(audio_url, timeout=30)

\* ------------------------------------------------------------ value sets
Urls == {"http://host/a.aac"}
Texts == {"hello world"}
Causes == {"e"}                  \* str(e) of an exception of a collaborator
WaitTimes == {FetchTimeout, FetchTimeout + 1}
HttpStatuses == {200, 404, 500}

NoUrl == "<None>"                \* Python None where a url is expected
NoExc == [type |-> "none", cause |-> "none"]
NoFile == 0                      \* files[p] = NoFile: p does not exist
NoPath == [name |-> 0, ext |-> "none"]
NoText == <<>>
NoDocId == 0                     \* Python None for a document id
NoResponse == [status |-> 0, body |-> [none |-> TRUE]]

Paths == [name : Names, ext : {"aac", "wav"}]

\* ------------------------------------------------------------- requests
\* What the client posted.  kind: "missing" (no or empty body),
\* "unparseable" (not JSON), "falsy" (JSON that is falsy in Python: {}, [],
\* null, 0, ""), "nondict" (truthy JSON that is not an object: [1], "x", 5),
\* "object" (a non-empty JSON object; audio_url is NoUrl when the key is
\* absent or null).
HttpRequests ==
    [json_mimetype : BOOLEAN, kind : {"missing", "unparseable", "falsy", "nondict"},
     audio_url : {NoUrl}]
    \cup [json_mimetype : BOOLEAN, kind : {"object"}, audio_url : Urls \cup {NoUrl, ""}]

\* request.get_json(): werkzeug raises an HTTPException when the body cannot
\* be loaded (BadRequest), and for a non-JSON mimetype either returns None
\* (legacy releases) or raises (UnsupportedMediaType / BadRequest).
get_json(http, legacy) ==
    IF ~http.json_mimetype
    THEN IF legacy THEN [exc |-> NoExc, data |-> [kind |-> "falsy", audio_url |-> NoUrl]]
                   ELSE [exc |-> [type |-> "HTTPException", cause |-> "UnsupportedMediaType"],
                         data |-> [kind |-> "falsy", audio_url |-> NoUrl]]
    ELSE IF http.kind \in {"missing", "unparseable"}
    THEN [exc |-> [type |-> "HTTPException", cause |-> "BadRequest"],
          data |-> [kind |-> "falsy", audio_url |-> NoUrl]]
    ELSE [exc |-> NoExc, data |-> [kind |-> http.kind, audio_url |-> http.audio_url]]

\* Python truthiness of the values used in `if not data` / `if not audio_url`.
TruthyData(data) == data.kind \in {"nondict", "object"}
TruthyUrl(u) == u # NoUrl /\ u # ""

\* data.get('audio_url'): only a dict has .get.
DataGet(data) ==
    IF data.kind = "object"
    THEN [exc |-> NoExc, val |-> data.audio_url]
    ELSE [exc |-> [type |-> "AttributeError", cause |-> "no attribute 'get'"], val |-> NoUrl]

\* ------------------------------------------------------------ responses
ErrorResponse(code, msg) == [status |-> code, body |-> [error |-> msg]]

\* The two except clauses of transcribe_endpoint.
ExceptResponse(exc) ==
    IF exc.type = "RequestException"
    THEN ErrorResponse(400, <<"Error downloading audio file: ", exc.cause>>)
    ELSE ErrorResponse(500, <<"Error processing request: ", exc.cause>>)

\* response_data, with firestore_doc_id added only when it is truthy.
SuccessResponse(text, url, doc_id) ==
    IF doc_id # NoDocId
    THEN [status |-> 200,
          body |-> [transcription |-> text, status |-> "success", audio_url |-> url,
                    firestore_doc_id |-> doc_id]]
    ELSE [status |-> 200,
          body |-> [transcription |-> text, status |-> "success", audio_url |-> url]]

\* --------------------------------------------------------- collaborators
\* What the remote host and the local disk do to one download.
FetchOutcomes ==
    [net_ok : BOOLEAN, http : HttpStatuses, wait : WaitTimes, write_ok : BOOLEAN]

\* DownloadExc without response.raise_for_status(): a 4xx/5xx body is saved.
DownloadExc_NoRaiseForStatus(f) ==
    IF f.wait > FetchTimeout THEN [type |-> "RequestException", cause |-> "Timeout"]
    ELSE IF ~f.net_ok THEN [type |-> "RequestException", cause |-> "ConnectionError"]
    ELSE IF ~f.write_ok THEN [type |-> "OSError", cause |-> "No space left on device"]
    ELSE NoExc

\* download_audio_file: the exception it re-raises, NoExc when it returns.
\* requests.get raises on a network failure or when the wait exceeds the
\* timeout, raise_for_status raises on a 4xx/5xx status (all of them
\* requests.RequestException); temp_file.write may raise OSError.
DownloadExc(f) ==
    IF f.wait > FetchTimeout THEN [type |-> "RequestException", cause |-> "Timeout"]
    ELSE IF ~f.net_ok THEN [type |-> "RequestException", cause |-> "ConnectionError"]
    ELSE IF f.http >= 400 /\ f.http < 600
         THEN [type |-> "RequestException",
               cause |-> IF f.http < 500 THEN "404 Client Error" ELSE "500 Server Error"]
    ELSE IF ~f.write_ok THEN [type |-> "OSError", cause |-> "No space left on device"]
    ELSE NoExc

\* NamedTemporaryFile(delete=False, suffix='.aac') is reached once the HTTP
\* exchange succeeded; it creates the file before the content is written.
DownloadCreates(f) == DownloadExc(f).type # "RequestException"

\* tempfile opens with O_EXCL: only a name whose .aac file does not exist.
FreshNames(fs) == {n \in Names : fs[[name |-> n, ext |-> "aac"]] = NoFile}

\* input_path.replace('.aac', '.wav')
ReplaceAacWav(path) == IF path.ext = "aac" THEN [path EXCEPT !.ext = "wav"] ELSE path

ConvertOutcomes == {"ok", "decode_error", "export_error"}

\* What a conversion does given the collaborator's outcome and the disk:
\* AudioSegment.from_file fails when the input is not there.
ConvertEffective(fs, input_path, o) ==
    IF fs[input_path] = NoFile THEN "decode_error" ELSE o

\* convert_audio_to_wav with `raise` in place of `return input_path`.
convert_audio_to_wav_Raises(input_path, eff) ==
    [exc |-> IF eff = "ok" THEN NoExc ELSE [type |-> "Exception", cause |-> eff],
     val |-> IF eff = "ok" THEN ReplaceAacWav(input_path) ELSE input_path]

\* convert_audio_to_wav (78-95): it returns output_path, and its except clause
\* returns input_path; nothing is raised to the caller.
convert_audio_to_wav(input_path, eff) ==
    [exc |-> NoExc,
     val |-> IF eff = "ok" THEN ReplaceAacWav(input_path) ELSE input_path]

\* audio.export opens output_path for writing before it encodes, so the
\* output exists after a successful and after a failed export.
ConvertWrites(eff) == eff \in {"ok", "export_error"}

\* temp_files.append(wav_path) without the `wav_path != temp_audio_path` test.
TrackWav_Always(tf, wav, raw) == Append(tf, wav)

\* `if wav_path != temp_audio_path: temp_files.append(wav_path)`
TrackWav(tf, wav, raw) == IF wav # raw THEN Append(tf, wav) ELSE tf

RecognizeOutcomes == {"recognized", "UnknownValueError", "RequestError", "Exception"}

\* sr.AudioFile(wav_path) raises (an ordinary Exception) when the file is gone.
\* (It decides by content, not by suffix: a raw file may hold WAV/FLAC data, so
\* an existing file of either suffix can end in any of the four outcomes.)
RecognizeEffective(fs, path, o) == IF fs[path] = NoFile THEN "Exception" ELSE o

\* transcribe_audio without its last clause, `except Exception`.
transcribe_audio_NoCatchAll(o, text, cause) ==
    [exc |-> IF o \in {"recognized", "UnknownValueError", "RequestError"}
             THEN NoExc ELSE [type |-> "Exception", cause |-> cause],
     val |-> CASE o = "recognized" -> <<text>>
               [] o = "UnknownValueError" ->
                     <<"Could not understand the audio - please speak clearly">>
               [] o = "RequestError" ->
                     <<"Could not request results from speech recognition service: ", cause>>
               [] OTHER -> NoText]

\* transcribe_audio (107-129): what it returns for each way the recognition
\* ends; the three except clauses turn every exception into a string.
transcribe_audio(o, text, cause) ==
    [exc |-> NoExc,
     val |-> CASE o = "recognized" -> <<text>>
               [] o = "UnknownValueError" ->
                     <<"Could not understand the audio - please speak clearly">>
               [] o = "RequestError" ->
                     <<"Could not request results from speech recognition service: ", cause>>
               [] OTHER -> <<"Error during transcription: ", cause>>]

\* Firestore's auto-generated document id: one no document has yet.
NextDocId(st) == Cardinality(st) + 1

\* save_to_firestore with `raise` in its except clause.
save_to_firestore_Raises(dbv, write_ok, id) ==
    [exc |-> IF dbv # "None" /\ ~write_ok
             THEN [type |-> "Exception", cause |-> "write failed"] ELSE NoExc,
     val |-> IF dbv = "None" THEN NoDocId ELSE IF write_ok THEN id ELSE NoDocId]

\* save_to_firestore (131-153): None when db is None, doc_ref.id after the
\* write, None from the except clause when the write raises.
save_to_firestore(dbv, write_ok, id) ==
    [exc |-> NoExc,
     val |-> IF dbv = "None" THEN NoDocId ELSE IF write_ok THEN id ELSE NoDocId]

\* What became of the write, for the history.
SaveOutcome(dbv, write_ok) ==
    IF dbv = "None" THEN "skipped" ELSE IF write_ok THEN "written" ELSE "failed"

\* Document with the status taken from the text: "error" for an error string.
Document_StatusByText(id, text, url) ==
    [id |-> id, transcription |-> text, audio_url |-> url,
     treatment_page |-> "Treatment Eight", processed_by |-> "python_backend",
     status |-> IF text \in {<<t>> : t \in Texts} THEN "completed" ELSE "error"]

\* The document doc_ref.set writes (timestamp left to the server).
Document(id, text, url) ==
    [id |-> id, transcription |-> text, audio_url |-> url,
     treatment_page |-> "Treatment Eight", processed_by |-> "python_backend",
     status |-> "completed"]

\* health_check that probes the client (db.collection(...)) instead of testing
\* `db is not None`: with db = None the probe raises and the except clause
\* answers 500 "unhealthy".
health_check_ProbesClient(dbv) ==
    IF dbv # "None"
    THEN [status |-> 200,
          body |-> [status |-> "healthy", service |-> "speech-to-text",
                    firebase |-> "connected"]]
    ELSE [status |-> 500,
          body |-> [status |-> "unhealthy", service |-> "speech-to-text",
                    firebase |-> "not connected"]]

\* health_check (222-240): the body of its try block; nothing in it reads the
\* client, so the except clause is not reached.  The python_version and
\* environment tags, fixed for the life of the process, are left out.
health_check(dbv) ==
    [status |-> 200,
     body |-> [status |-> "healthy", service |-> "speech-to-text",
               firebase |-> IF dbv # "None" THEN "connected" ELSE "not connected"]]

\* ---------------------------------------------------------------- state
VARIABLES
    db,               \* module-level Firestore client: "client" or "None"
    health,           \* the answer to the last GET /health, NoResponse before the first
    files,            \* the temp directory: path -> NoFile or the request that wrote it
    store,            \* documents of the voice_transcriptions collection
    pc,               \* per request: where transcribe_endpoint stands
    http,             \* per request: what the client posted
    audio_url, temp_files, temp_audio_path, wav_path,   \* locals of transcribe_endpoint
    transcription, firestore_doc_id, response, i,
    t_wav_path,       \* wav_path of transcribe_audio
    calls,            \* history: the steps the request has invoked, in order
    created,          \* history: the paths the request has created or written
    unlinked,         \* history: the paths the request has unlinked, in order
    caught,           \* history: the exception an except clause of the handler caught
    unlinkFailed,     \* history: os.unlink raised in the finally block
    fetch,            \* history: what the remote host and the disk did to the download
    converted,        \* history: the outcome of each conversion, in order
    recog,            \* history: how the recognition ended
    saved,            \* history: how the store write ended, and the document written
    shared            \* history: some request touched a file of another running request

shared_vars == <<db, health, files, store, shared>>
local_vars == <<audio_url, temp_files, temp_audio_path, wav_path, transcription,
                firestore_doc_id, response, i, t_wav_path>>
hist_vars == <<http, calls, created, unlinked, caught, unlinkFailed, fetch, converted,
              recog, saved>>
vars == <<shared_vars, pc, local_vars, hist_vars>>

NoHttp == [json_mimetype |-> FALSE, kind |-> "none", audio_url |-> NoUrl]
NoFetch == [net_ok |-> FALSE, http |-> 0, wait |-> 0, write_ok |-> FALSE]
NoRecog == [outcome |-> "none", text |-> "", cause |-> ""]
NoSave == [outcome |-> "none", doc |-> [id |-> NoDocId]]

\* `db = initialize_firebase()` either succeeded or left db = None; the temp
\* directory and the collection start empty; no request has arrived.
Init ==
    /\ db \in {"client", "None"}
    /\ health = NoResponse
    /\ files = [p \in Paths |-> NoFile]
    /\ store = {}
    /\ shared = FALSE
    /\ pc = [r \in Requests |-> "idle"]
    /\ http = [r \in Requests |-> NoHttp]
    /\ audio_url = [r \in Requests |-> NoUrl]
    /\ temp_files = [r \in Requests |-> <<>>]
    /\ temp_audio_path = [r \in Requests |-> NoPath]
    /\ wav_path = [r \in Requests |-> NoPath]
    /\ t_wav_path = [r \in Requests |-> NoPath]
    /\ transcription = [r \in Requests |-> NoText]
    /\ firestore_doc_id = [r \in Requests |-> NoDocId]
    /\ response = [r \in Requests |-> NoResponse]
    /\ i = [r \in Requests |-> 1]
    /\ calls = [r \in Requests |-> <<>>]
    /\ created = [r \in Requests |-> {}]
    /\ unlinked = [r \in Requests |-> <<>>]
    /\ caught = [r \in Requests |-> NoExc]
    /\ unlinkFailed = [r \in Requests |-> FALSE]
    /\ fetch = [r \in Requests |-> NoFetch]
    /\ converted = [r \in Requests |-> <<>>]
    /\ recog = [r \in Requests |-> NoRecog]
    /\ saved = [r \in Requests |-> NoSave]

Running(r) == pc[r] \notin {"idle", "done"}

\* Request r touches path p while p is a file of another request still running.
Foreign(r, p) == files[p] # NoFile /\ files[p] # r /\ Running(files[p])

\* Leave with the cleanup written after the try statement instead of in a
\* finally block: a `return` or an except clause ends the handler at once.
Leave_SkipFinally(r, exc, resp) ==
    /\ response' = [response EXCEPT ![r] = IF exc = NoExc THEN resp ELSE ExceptResponse(exc)]
    /\ caught' = [caught EXCEPT ![r] = exc]
    /\ pc' = [pc EXCEPT ![r] = "done"]

\* The handler leaves the try block: through `return ..., 400`, or through an
\* except clause when exc is an exception.  The finally block runs next.
Leave(r, exc, resp) ==
    /\ response' = [response EXCEPT ![r] = IF exc = NoExc THEN resp ELSE ExceptResponse(exc)]
    /\ caught' = [caught EXCEPT ![r] = exc]
    /\ pc' = [pc EXCEPT ![r] = "finally"]

\* Lines 158-171: temp_files = [], get_json, the two validations.
Receive(r) ==
    /\ pc[r] = "idle"
    /\ \E h \in HttpRequests, legacy \in BOOLEAN :
         LET j == get_json(h, legacy)
             g == DataGet(j.data)
         IN /\ http' = [http EXCEPT ![r] = h]
            /\ IF j.exc # NoExc THEN
                    Leave(r, j.exc, NoResponse) /\ UNCHANGED audio_url
               ELSE IF ~TruthyData(j.data) THEN
                    Leave(r, NoExc, ErrorResponse(400, <<"No JSON data provided">>))
                    /\ UNCHANGED audio_url
               ELSE IF g.exc # NoExc THEN
                    Leave(r, g.exc, NoResponse) /\ UNCHANGED audio_url
               ELSE IF ~TruthyUrl(g.val) THEN
                    Leave(r, NoExc, ErrorResponse(400, <<"No audio URL provided">>))
                    /\ audio_url' = [audio_url EXCEPT ![r] = g.val]
               ELSE /\ audio_url' = [audio_url EXCEPT ![r] = g.val]
                    /\ pc' = [pc EXCEPT ![r] = "download"]
                    /\ UNCHANGED <<response, caught>>
    /\ UNCHANGED <<shared_vars, temp_files, temp_audio_path, wav_path, transcription,
                   firestore_doc_id, i, t_wav_path, calls, created, unlinked, unlinkFailed,
                   fetch, converted, recog, saved>>

\* Lines 173-175 with download_audio_file (62-76).
Download(r) ==
    /\ pc[r] = "download"
    /\ calls' = [calls EXCEPT ![r] = Append(@, "Fetcher")]
    /\ \E f \in FetchOutcomes, n \in FreshNames(files) :
         LET path == [name |-> n, ext |-> "aac"]
             exc == DownloadExc(f)
         IN /\ fetch' = [fetch EXCEPT ![r] = f]
            /\ IF DownloadCreates(f)
               THEN /\ files' = [files EXCEPT ![path] = r]
                    /\ created' = [created EXCEPT ![r] = @ \cup {path}]
               ELSE UNCHANGED <<files, created>>
            /\ IF exc # NoExc
               THEN Leave(r, exc, NoResponse) /\ UNCHANGED <<temp_audio_path, temp_files>>
               ELSE /\ temp_audio_path' = [temp_audio_path EXCEPT ![r] = path]
                    /\ temp_files' = [temp_files EXCEPT ![r] = Append(@, path)]
                    /\ pc' = [pc EXCEPT ![r] = "convert"]
                    /\ UNCHANGED <<response, caught>>
    /\ UNCHANGED <<db, health, store, shared, audio_url, wav_path, transcription, firestore_doc_id,
                   i, t_wav_path, http, unlinked, unlinkFailed, converted, recog, saved>>

\* One call of convert_audio_to_wav(input_path) by request r (lines 78-95):
\* its effect on the temp directory and on the history.
ConvertFiles(r, input_path, eff) ==
    LET output_path == ReplaceAacWav(input_path)
    IN /\ converted' = [converted EXCEPT ![r] = Append(@, eff)]
       /\ IF ConvertWrites(eff)
          THEN /\ files' = [files EXCEPT ![output_path] = r]
               /\ created' = [created EXCEPT ![r] = @ \cup {output_path}]
               /\ shared' = (shared \/ Foreign(r, input_path) \/ Foreign(r, output_path))
          ELSE /\ UNCHANGED <<files, created>>
               /\ shared' = (shared \/ Foreign(r, input_path))

\* Lines 177-180: the endpoint's conversion.
Convert(r) ==
    /\ pc[r] = "convert"
    /\ calls' = [calls EXCEPT ![r] = Append(@, "Normalizer")]
    /\ \E o \in ConvertOutcomes :
         LET eff == ConvertEffective(files, temp_audio_path[r], o)
             c == convert_audio_to_wav(temp_audio_path[r], eff)
         IN /\ ConvertFiles(r, temp_audio_path[r], eff)
            /\ IF c.exc # NoExc
               THEN Leave(r, c.exc, NoResponse) /\ UNCHANGED <<wav_path, temp_files>>
               ELSE /\ wav_path' = [wav_path EXCEPT ![r] = c.val]
                    /\ temp_files' = [temp_files EXCEPT ![r] =
                                          TrackWav(@, c.val, temp_audio_path[r])]
                    /\ pc' = [pc EXCEPT ![r] = "transcribe"]
                    /\ UNCHANGED <<response, caught>>
    /\ UNCHANGED <<db, health, store, audio_url, temp_audio_path, transcription, firestore_doc_id,
                   i, t_wav_path, http, unlinked, unlinkFailed, fetch, recog, saved>>

\* The endpoint takes transcribe_audio's result (183): an exception goes to
\* the except clauses, a string goes on to save_to_firestore.
Transcribed(r, t) ==
    IF t.exc # NoExc
    THEN Leave(r, t.exc, NoResponse) /\ UNCHANGED transcription
    ELSE /\ transcription' = [transcription EXCEPT ![r] = t.val]
         /\ pc' = [pc EXCEPT ![r] = "save"]
         /\ UNCHANGED <<response, caught>>

\* Lines 183, 97-105: transcribe_audio(temp_audio_path) starts by converting
\* the path it was given; an exception of the conversion would be caught by
\* transcribe_audio's own `except Exception`.
TranscribeConvert(r) ==
    /\ pc[r] = "transcribe"
    /\ calls' = [calls EXCEPT ![r] = @ \o <<"Transcriber", "Normalizer">>]
    /\ \E o \in ConvertOutcomes, cause \in Causes :
         LET eff == ConvertEffective(files, temp_audio_path[r], o)
             c == convert_audio_to_wav(temp_audio_path[r], eff)
         IN /\ ConvertFiles(r, temp_audio_path[r], eff)
            /\ IF c.exc # NoExc
               THEN /\ Transcribed(r, transcribe_audio("Exception", "", cause))
                    /\ recog' = [recog EXCEPT ![r] =
                                     [outcome |-> "Exception", text |-> "", cause |-> cause]]
                    /\ UNCHANGED t_wav_path
               ELSE /\ t_wav_path' = [t_wav_path EXCEPT ![r] = c.val]
                    /\ pc' = [pc EXCEPT ![r] = "recognize"]
                    /\ UNCHANGED <<transcription, response, caught, recog>>
    /\ UNCHANGED <<db, health, store, audio_url, temp_files, temp_audio_path, wav_path,
                   firestore_doc_id, i, http, unlinked, unlinkFailed, fetch, saved>>

\* Lines 107-129: read wav_path, recognize, map every failure to a string.
Recognize(r) ==
    /\ pc[r] = "recognize"
    /\ \E o \in RecognizeOutcomes, text \in Texts, cause \in Causes :
         LET eff == RecognizeEffective(files, t_wav_path[r], o)
         IN /\ Transcribed(r, transcribe_audio(eff, text, cause))
            /\ recog' = [recog EXCEPT ![r] =
                   [outcome |-> eff,
                    text |-> IF eff = "recognized" THEN text ELSE "",
                    cause |-> IF eff \in {"RequestError", "Exception"} THEN cause ELSE ""]]
    /\ shared' = (shared \/ Foreign(r, t_wav_path[r]))
    /\ UNCHANGED <<db, health, files, store, audio_url, temp_files, temp_audio_path, wav_path,
                   firestore_doc_id, i, t_wav_path, http, calls, created, unlinked,
                   unlinkFailed, fetch, converted, saved>>

\* Lines 188-200 with save_to_firestore (131-153): the best-effort write, then
\* the response is built and returned.
Save(r) ==
    /\ pc[r] = "save"
    /\ \E write_ok \in BOOLEAN :
         LET id == NextDocId(store)
             doc == Document(id, transcription[r], audio_url[r])
             o == SaveOutcome(db, write_ok)
             s == save_to_firestore(db, write_ok, id)
         IN /\ store' = IF o = "written" THEN store \cup {doc} ELSE store
            /\ saved' = [saved EXCEPT ![r] =
                   [outcome |-> o, doc |-> IF o = "written" THEN doc ELSE NoSave.doc]]
            /\ IF s.exc # NoExc
               THEN /\ Leave(r, s.exc, NoResponse)
                    /\ calls' = [calls EXCEPT ![r] = Append(@, "Persister")]
                    /\ UNCHANGED firestore_doc_id
               ELSE /\ firestore_doc_id' = [firestore_doc_id EXCEPT ![r] = s.val]
                    /\ calls' = [calls EXCEPT ![r] = @ \o <<"Persister", "Response">>]
                    /\ Leave(r, NoExc, SuccessResponse(transcription[r], audio_url[r], s.val))
    /\ UNCHANGED <<db, health, files, shared, audio_url, temp_files, temp_audio_path, wav_path,
                   transcription, i, t_wav_path, http, created, unlinked, unlinkFailed,
                   fetch, converted, recog>>

\* Cleanup with the try/except around the whole loop instead of inside it: a
\* failing os.unlink ends the loop, the remaining entries are not visited.
Cleanup_AbortOnFailure(r) ==
    /\ pc[r] = "finally"
    /\ i[r] <= Len(temp_files[r])
    /\ LET temp_file == temp_files[r][i[r]]
       IN IF files[temp_file] # NoFile
          THEN \E unlink_ok \in BOOLEAN :
                 /\ shared' = (shared \/ Foreign(r, temp_file))
                 /\ IF unlink_ok
                    THEN /\ files' = [files EXCEPT ![temp_file] = NoFile]
                         /\ unlinked' = [unlinked EXCEPT ![r] = Append(@, temp_file)]
                         /\ i' = [i EXCEPT ![r] = @ + 1]
                         /\ UNCHANGED unlinkFailed
                    ELSE /\ unlinkFailed' = [unlinkFailed EXCEPT ![r] = TRUE]
                         /\ i' = [i EXCEPT ![r] = Len(temp_files[r]) + 1]
                         /\ UNCHANGED <<files, unlinked>>
          ELSE /\ i' = [i EXCEPT ![r] = @ + 1]
               /\ UNCHANGED <<files, shared, unlinked, unlinkFailed>>
    /\ UNCHANGED <<db, health, store, pc, audio_url, temp_files, temp_audio_path, wav_path,
                   transcription, firestore_doc_id, response, t_wav_path,
                   http, calls, created, caught, fetch, converted, recog, saved>>

\* Lines 212-220: one iteration of `for temp_file in temp_files`.
Cleanup(r) ==
    /\ pc[r] = "finally"
    /\ i[r] <= Len(temp_files[r])
    /\ LET temp_file == temp_files[r][i[r]]
       IN IF files[temp_file] # NoFile
          THEN \E unlink_ok \in BOOLEAN :
                 /\ shared' = (shared \/ Foreign(r, temp_file))
                 /\ IF unlink_ok
                    THEN /\ files' = [files EXCEPT ![temp_file] = NoFile]
                         /\ unlinked' = [unlinked EXCEPT ![r] = Append(@, temp_file)]
                         /\ UNCHANGED unlinkFailed
                    ELSE /\ unlinkFailed' = [unlinkFailed EXCEPT ![r] = TRUE]
                         /\ UNCHANGED <<files, unlinked>>
          ELSE UNCHANGED <<files, shared, unlinked, unlinkFailed>>
    /\ i' = [i EXCEPT ![r] = @ + 1]
    /\ UNCHANGED <<db, health, store, pc, audio_url, temp_files, temp_audio_path, wav_path,
                   transcription, firestore_doc_id, response, t_wav_path,
                   http, calls, created, caught, fetch, converted, recog, saved>>

\* The finally block is over: the handler returns the response it chose.
Return(r) ==
    /\ pc[r] = "finally"
    /\ i[r] > Len(temp_files[r])
    /\ pc' = [pc EXCEPT ![r] = "done"]
    /\ UNCHANGED <<shared_vars, local_vars, hist_vars>>

\* GET /health (222-240), served at any time, whatever the requests do.
Health ==
    /\ health' = health_check(db)
    /\ UNCHANGED <<db, files, store, shared, pc, local_vars, hist_vars>>

Next ==
    \/ Health
    \/ \E r \in Requests :
        \/ Receive(r)
        \/ Download(r)
        \/ Convert(r)
        \/ TranscribeConvert(r)
        \/ Recognize(r)
        \/ Save(r)
        \/ Cleanup(r)
        \/ Return(r)

Spec == Init /\ [][Next]_vars

\* The steps of request r after it has been received.  Each is a blocking call
\* that returns or raises (download with its timeout, conversion, recognition,
\* store write, unlink), so a request that can take a step eventually does.
Handle(r) ==
    \/ Download(r)
    \/ Convert(r)
    \/ TranscribeConvert(r)
    \/ Recognize(r)
    \/ Save(r)
    \/ Cleanup(r)
    \/ Return(r)

\* A state Spec reaches by Receive and Return alone: every request but the
\* first has posted an empty JSON object and has been answered 400, and the
\* first has not arrived yet.
EmptyObject == [json_mimetype |-> TRUE, kind |-> "falsy", audio_url |-> NoUrl]
LiveInit ==
    /\ db \in {"client", "None"}
    /\ health = NoResponse
    /\ files = [p \in Paths |-> NoFile]
    /\ store = {}
    /\ shared = FALSE
    /\ pc = [r \in Requests |-> IF r = 1 THEN "idle" ELSE "done"]
    /\ http = [r \in Requests |-> IF r = 1 THEN NoHttp ELSE EmptyObject]
    /\ response = [r \in Requests |->
                      IF r = 1 THEN NoResponse
                      ELSE ErrorResponse(400, <<"No JSON data provided">>)]
    /\ audio_url = [r \in Requests |-> NoUrl]
    /\ temp_files = [r \in Requests |-> <<>>]
    /\ temp_audio_path = [r \in Requests |-> NoPath]
    /\ wav_path = [r \in Requests |-> NoPath]
    /\ t_wav_path = [r \in Requests |-> NoPath]
    /\ transcription = [r \in Requests |-> NoText]
    /\ firestore_doc_id = [r \in Requests |-> NoDocId]
    /\ i = [r \in Requests |-> 1]
    /\ calls = [r \in Requests |-> <<>>]
    /\ created = [r \in Requests |-> {}]
    /\ unlinked = [r \in Requests |-> <<>>]
    /\ caught = [r \in Requests |-> NoExc]
    /\ unlinkFailed = [r \in Requests |-> FALSE]
    /\ fetch = [r \in Requests |-> NoFetch]
    /\ converted = [r \in Requests |-> <<>>]
    /\ recog = [r \in Requests |-> NoRecog]
    /\ saved = [r \in Requests |-> NoSave]

\* One request in flight, its steps taken fairly.
LiveSpec == LiveInit /\ [][Next]_vars /\ \A r \in Requests : WF_vars(Handle(r))

TypeOK ==
    /\ db \in {"client", "None"}
    /\ files \in [Paths -> {NoFile} \cup Requests]
    /\ pc \in [Requests -> {"idle", "download", "convert", "transcribe", "recognize",
                            "save", "finally", "done"}]
    /\ \A r \in Requests : i[r] \in 1..(Len(temp_files[r]) + 1)

\* ======================================================================
\* Properties
\* ======================================================================
Returned(r) == pc[r] = "done"
Chosen(r) == pc[r] \in {"finally", "done"}     \* the response has been chosen
FetchSucceeded(r) == temp_audio_path[r] # NoPath
Count(seq, x) == Cardinality({k \in 1..Len(seq) : seq[k] = x})
IsPrefix(a, b) == Len(a) <= Len(b) /\ \A k \in 1..Len(a) : a[k] = b[k]

\* C1: when transcribe_endpoint has returned and no os.unlink failed, no
\* temporary file the request created (the .aac, or a .wav written by either
\* conversion) still exists.  The code violates this.
C1_NoLeak ==
    \A r \in Requests :
        (Returned(r) /\ ~unlinkFailed[r]) => \A p \in created[r] : files[p] # r

\* The fetch failures C2 speaks of: a non-2xx status, a network failure, the
\* timeout exceeded; and the cause each one carries.
FetchFailed(f) ==
    f # NoFetch /\ (f.wait > FetchTimeout \/ ~f.net_ok \/ f.http \notin 200..299)
UnderlyingCause(f) ==
    IF f.wait > FetchTimeout THEN "Timeout"
    ELSE IF ~f.net_ok THEN "ConnectionError"
    ELSE IF f.http = 404 THEN "404 Client Error" ELSE "500 Server Error"

C3_BadBodyIs400 ==
    \A r \in Requests :
        (Chosen(r) /\ http[r].kind \in {"missing", "unparseable"}) =>
            (response[r].status = 400 /\ Count(calls[r], "Fetcher") = 0)

\* C4: when the body parses as JSON but audio_url is absent or empty, the
\* response is 400, the Fetcher is never invoked, no temporary file is
\* created, temp_files is empty at cleanup and nothing is written to the
\* store.  The code violates this.
C4_MissingUrlIs400 ==
    \A r \in Requests :
        ( /\ Chosen(r)
          /\ http[r].json_mimetype
          /\ \/ http[r].kind \in {"falsy", "nondict"}
             \/ http[r].kind = "object" /\ http[r].audio_url \in {NoUrl, ""} ) =>
            /\ response[r].status = 400
            /\ Count(calls[r], "Fetcher") = 0
            /\ created[r] = {}
            /\ temp_files[r] = <<>>
            /\ unlinked[r] = <<>>
            /\ saved[r] = NoSave

\* C5: whenever the fetch succeeds the response is 200 with a transcription
\* and status "success", whatever the later steps do; no other response is
\* ever chosen once the audio has been retrieved.
C5_FetchedIs200 ==
    \A r \in Requests :
        FetchSucceeded(r) =>
            /\ response[r].status \in {NoResponse.status, 200}
            /\ caught[r] = NoExc
            /\ Chosen(r) =>
                   /\ response[r].status = 200
                   /\ {"transcription", "status", "audio_url"} \subseteq DOMAIN response[r].body
                   /\ response[r].body.status = "success"

C5_Witness ==
    \E r \in Requests :
        /\ Returned(r)
        /\ converted[r] = <<"decode_error", "export_error">>
        /\ recog[r].outcome = "RequestError"
        /\ saved[r].outcome = "failed"
        /\ response[r].status = 200

\* C6: when the normalization (the endpoint's conversion) fails it returns
\* the original path, the pipeline goes on to the Transcriber, the Transcriber
\* reads the raw downloaded artifact, and the request completes with 200.
\* The code violates this.
C6_FailedConversionReadsRaw ==
    \A r \in Requests :
        (Returned(r) /\ Len(converted[r]) >= 1 /\ converted[r][1] # "ok") =>
            /\ wav_path[r] = temp_audio_path[r]
            /\ Count(calls[r], "Transcriber") = 1
            /\ t_wav_path[r] = temp_audio_path[r]
            /\ response[r].status = 200

\* The text C7 gives for each outcome of the Transcriber.
C7_Text(rc) ==
    CASE rc.outcome = "recognized" -> <<rc.text>>
      [] rc.outcome = "UnknownValueError" ->
            <<"Could not understand the audio - please speak clearly">>
      [] rc.outcome = "RequestError" ->
            <<"Could not request results from speech recognition service: ", rc.cause>>
      [] rc.outcome = "Exception" -> <<"Error during transcription: ", rc.cause>>

\* C7: the Transcriber never raises: each of its four outcomes yields its own
\* text (two different outcomes never the same text), and in all four the
\* response is 200 with status "success" and that text as transcription.
C7_TranscriberOutcomes ==
    /\ \A r \in Requests :
           recog[r] # NoRecog =>
               /\ caught[r] = NoExc
               /\ transcription[r] = C7_Text(recog[r])
               /\ Chosen(r) =>
                      /\ response[r].status = 200
                      /\ response[r].body.status = "success"
                      /\ response[r].body.transcription = C7_Text(recog[r])
    /\ \A r1, r2 \in Requests :
           (recog[r1] # NoRecog /\ recog[r2] # NoRecog
               /\ recog[r1].outcome # recog[r2].outcome) =>
               transcription[r1] # transcription[r2]

C7_Witness ==
    \E r1, r2 \in Requests :
        /\ Returned(r1) /\ Returned(r2)
        /\ recog[r1].outcome = "UnknownValueError"
        /\ recog[r2].outcome = "Exception"
        /\ response[r1].status = 200 /\ response[r2].status = 200

\* C8: when db is None or the store write fails, save_to_firestore returns no
\* id without raising, the response is 200 without firestore_doc_id, and its
\* transcription, status and audio_url are what they are when the write
\* succeeds; when the write succeeds the response carries firestore_doc_id.
C8_BestEffortSave ==
    \A r \in Requests :
        saved[r].outcome # "none" =>
            /\ Chosen(r)
            /\ caught[r] = NoExc
            /\ db = "None" => saved[r].outcome = "skipped"
            /\ saved[r].outcome \in {"skipped", "failed"} => firestore_doc_id[r] = NoDocId
            /\ response[r].status = 200
            /\ response[r].body.transcription = transcription[r]
            /\ response[r].body.status = "success"
            /\ response[r].body.audio_url = http[r].audio_url
            /\ ("firestore_doc_id" \in DOMAIN response[r].body) <=> (saved[r].outcome = "written")
            /\ saved[r].outcome = "written" =>
                   response[r].body.firestore_doc_id = saved[r].doc.id

C8_Witness ==
    \E r1, r2 \in Requests :
        /\ Returned(r1) /\ Returned(r2)
        /\ saved[r1].outcome = "failed" /\ saved[r2].outcome = "written"
        /\ response[r1].status = 200
        /\ "firestore_doc_id" \notin DOMAIN response[r1].body

\* C9: the steps of one request run in the order Fetcher, Normalizer,
\* Transcriber, Persister, response, and each is invoked at most once (the
\* cleanup comes after them).  The code violates this.
C9_StrictlySequential ==
    \A r \in Requests :
        /\ IsPrefix(calls[r], <<"Fetcher", "Normalizer", "Transcriber", "Persister", "Response">>)
        /\ unlinked[r] # <<>> => Chosen(r)

\* C10: no request reads, overwrites or deletes a file created by another
\* request that has not yet finished.  The code violates this.
C10_NoSharing == ~shared

\* C11: GET /health answers 200 "healthy" whether or not the store client was
\* initialized, its flag is "connected" exactly when db is not None, and a
\* failed initialization prevents neither /health nor /transcribe from being
\* served (a request can always be taken, and with db = None a fetched
\* request is still answered 200).
C11_HealthAlwaysServed ==
    /\ ENABLED Health
    /\ \A r \in Requests : pc[r] = "idle" => ENABLED Receive(r)
    /\ health # NoResponse =>
           /\ health.status = 200
           /\ health.body.status = "healthy"
           /\ health.body.firebase \in {"connected", "not connected"}
           /\ (health.body.firebase = "connected") <=> (db # "None")
    /\ \A r \in Requests :
           (db = "None" /\ FetchSucceeded(r) /\ Chosen(r)) => response[r].status = 200

C11_Witness ==
    /\ db = "None"
    /\ health # NoResponse
    /\ health.body.firebase = "not connected"
    /\ \E r \in Requests : Returned(r) /\ response[r].status = 200

\* C12: temp_files never holds the same path twice and holds only paths of
\* files the request created, so the cleanup unlinks each tracked artifact at
\* most once: no path is unlinked twice, and only tracked paths are unlinked.
C12_NoDoubleRelease ==
    \A r \in Requests :
        /\ \A j, k \in 1..Len(temp_files[r]) :
               j # k => temp_files[r][j] # temp_files[r][k]
        /\ \A k \in 1..Len(temp_files[r]) : temp_files[r][k] \in created[r]
        /\ \A j, k \in 1..Len(unlinked[r]) : j # k => unlinked[r][j] # unlinked[r][k]
        /\ \A k \in 1..Len(unlinked[r]) :
               \E j \in 1..Len(temp_files[r]) : j < i[r] /\ unlinked[r][k] = temp_files[r][j]
        /\ Len(unlinked[r]) <= Len(temp_files[r])

C12_Witness ==
    \E r \in Requests :
        /\ Returned(r)
        /\ Len(temp_files[r]) = 2
        /\ unlinked[r] = temp_files[r]

\* C13: every request that begins is eventually answered; the answer is one
\* of 200, 400, 500 and, once chosen, is never replaced; and the handler
\* returns only from its cleanup phase, after the loop has visited every entry
\* of temp_files.
C13_EveryRequestAnswered ==
    /\ \A r \in Requests : (pc[r] # "idle") ~> Returned(r)
    /\ [](\A r \in Requests :
             Returned(r) => /\ response[r].status \in {200, 400, 500}
                            /\ i[r] = Len(temp_files[r]) + 1)
    /\ [][\A r \in Requests :
             /\ response[r] # NoResponse => response'[r] = response[r]
             /\ (pc'[r] = "done" /\ pc[r] # "done") => pc[r] = "finally"]_vars

C13_Witness ==
    \E r \in Requests :
        /\ Returned(r)
        /\ response[r].status = 200
        /\ Len(temp_files[r]) = 2
        /\ unlinkFailed[r]

\* C14: a request writes at most one record, only after the Transcriber has
\* returned and never when validation or the fetch failed; the record's
\* transcription and audio_url are those of the 200 response, and its status
\* is "completed" also when the transcription is one of the error strings.
C14_OneRecordPerRequest ==
    /\ Cardinality(store) = Cardinality({r \in Requests : saved[r].outcome = "written"})
    /\ \A d \in store : \E r \in Requests : saved[r].doc = d
    /\ \A r \in Requests :
           /\ saved[r].outcome = "written" =>
                  /\ saved[r].doc \in store
                  /\ FetchSucceeded(r)
                  /\ Count(calls[r], "Transcriber") = 1
                  /\ recog[r] # NoRecog
                  /\ response[r].status = 200
                  /\ saved[r].doc.transcription = response[r].body.transcription
                  /\ saved[r].doc.audio_url = response[r].body.audio_url
                  /\ saved[r].doc.status = "completed"
           /\ (Chosen(r) /\ ~FetchSucceeded(r)) => saved[r] = NoSave
           /\ recog[r] = NoRecog => saved[r] = NoSave

C14_Witness ==
    \E r \in Requests :
        /\ Returned(r)
        /\ saved[r].outcome = "written"
        /\ recog[r].outcome = "RequestError"
        /\ saved[r].doc.status = "completed"
        /\ saved[r].doc.transcription = response[r].body.transcription

\* C15: a failing os.unlink in the cleanup is swallowed: the loop goes on to
\* the next entry of temp_files (the handler returns only after the last one),
\* and the response chosen before the cleanup keeps its status and body.
C15_UnlinkFailureSwallowed ==
    [][\A r \in Requests :
          /\ (unlinkFailed'[r] /\ ~unlinkFailed[r]) =>
                 /\ pc[r] = "finally" /\ pc'[r] = "finally"
                 /\ i'[r] = i[r] + 1
          /\ pc[r] = "finally" =>
                 /\ response'[r] = response[r]
                 /\ temp_files'[r] = temp_files[r]
                 /\ i'[r] \in {i[r], i[r] + 1}
                 /\ pc'[r] \in {"finally", "done"}
                 /\ pc'[r] = "done" => i[r] = Len(temp_files[r]) + 1]_vars

C15_Witness ==
    \E r \in Requests :
        /\ Returned(r)
        /\ unlinkFailed[r]
        /\ Len(temp_files[r]) = 2
        /\ unlinked[r] = <<temp_files[r][2]>>
        /\ response[r].status = 200

====
